---- MODULE Spec2Model ----
(***************************************************************************)
(* Model of the face-match HTTP service (index.js, both variants that the  *)
(* source file holds): the model loader, the server start, the GET / and   *)
(* POST /compare-faces handlers, the image resolver loadImage and the      *)
(* best-distance loop.                                                     *)
(*                                                                         *)
(* Distances and thresholds are counted in tenths (0.6 is 6).  A face      *)
(* descriptor is one integer and the distance of two descriptors is their  *)
(* absolute difference (the euclidean distance in one dimension).          *)
(***************************************************************************)
EXTENDS Integers, Sequences, FiniteSets, Bags, TLC

\* ------------------------------------------------------------------ bounds
MaxPosts == 1       \* POST /compare-faces requests the clients send in one run
MaxGets == 1        \* GET / requests the clients send in one run
MaxFaces == 1       \* faces the detector returns for one image of a request
MaxDesc == 1        \* a request's descriptors are 0, DescStep, ..., MaxDesc * DescStep
MaxLoopFaces == 2   \* faces per collection when the loop is checked on its own
MaxLoopDesc == 2    \* descriptors are 0 .. MaxLoopDesc when the loop is checked on its own
MaxDimK == 8        \* image sides are 100, 200, ..., MaxDimK * 100

\* ------------------------------------------------------- program constants
DefaultThreshold == 6   \* threshold = 0.6, in tenths
ResizeWidth == 512      \* sharp(buffer).resize(512)

DescStep == DefaultThreshold

VARIABLES
    variant,        \* which index.js of the file runs: 1 (image1/image2) or 2 (image1Path/image2Path)
    loaded,         \* the nets whose loadFromDisk has resolved, in order
    modelsLoaded,   \* let modelsLoaded
    listening,      \* app.listen has been called
    exited,         \* process.exit(1) has been called
    reqs,           \* bag of the HTTP exchanges (refused, in flight and answered)
    resizeIn,       \* SpecResize: the decoded input image <<width, height>>
    resizeOut,      \* SpecResize: the image loadImage returns
    loopIn,         \* SpecLoop: <<detections1, detections2>>
    loopOut         \* SpecLoop: the loop's result

vars == <<variant, loaded, modelsLoaded, listening, exited, reqs,
          resizeIn, resizeOut, loopIn, loopOut>>

\* ------------------------------------------------------------ JS values
\* A string is kept as <<leading prefix, rest>>: only the prefix decides what
\* the code does with it.  Undefined is the value of a field the body lacks.
Undefined == <<"undefined">>
EmptyString == <<"", "">>
Dead == <<"-", "-">>    \* a local that is out of scope or never read again

startsWith(s, prefix) == Len(s) = 2 /\ prefix # "" /\ s[1] = prefix

Falsy(v) == v = Undefined \/ v = EmptyString

ImageStrings ==
    { <<"data:image", "/jpeg;base64,AAAA">>,
      <<"http://", "host/a.jpg">>,
      <<"https://", "host/b.jpg">>,
      <<"", "person1.jpg">> }

Thresholds == {0, DefaultThreshold + 1}

StatusTexts == {"Not Found", "Forbidden"}

Field1 == IF variant = 1 THEN "image1" ELSE "image1Path"
Field2 == IF variant = 1 THEN "image2" ELSE "image2Path"

NoFields == [f \in {} |-> Undefined]

OptField(name, present, v) == IF present THEN name :> v ELSE NoFields

\* The JSON bodies a client sends: each field present or not.
Bodies ==
    { OptField(Field1, p1, v1) @@ OptField(Field2, p2, v2) @@ OptField("threshold", p3, t) :
        p1 \in BOOLEAN, p2 \in BOOLEAN, p3 \in BOOLEAN,
        v1 \in ImageStrings \cup {EmptyString},
        v2 \in ImageStrings \cup {EmptyString},
        t \in Thresholds }

Has(body, f) == f \in DOMAIN body

Get(body, f) == IF Has(body, f) THEN body[f] ELSE Undefined

\* the default of the destructuring, threshold = 0.6
ThresholdOf(body) == IF Has(body, "threshold") THEN body["threshold"] ELSE DefaultThreshold

\* ------------------------------------------------------------ model loader
Nets == <<"ssdMobilenetv1", "faceLandmark68Net", "faceRecognitionNet">>

LoadFromDiskSettlesNoExit(ok) ==
    /\ ~exited
    /\ ~modelsLoaded
    /\ Len(loaded) < Len(Nets)
    /\ IF ok
       THEN /\ loaded' = Append(loaded, Nets[Len(loaded) + 1])
            /\ modelsLoaded' = (Len(loaded) + 1 = Len(Nets))
       ELSE /\ loaded' = loaded
            /\ modelsLoaded' = TRUE
    /\ UNCHANGED <<variant, listening, exited, reqs, resizeIn, resizeOut, loopIn, loopOut>>

\* One await of loadModels settles: the next net's loadFromDisk resolves (ok)
\* or rejects, and the catch block ends the process.
LoadFromDiskSettles(ok) ==
    /\ ~exited
    /\ ~modelsLoaded
    /\ Len(loaded) < Len(Nets)
    /\ IF ok
       THEN /\ loaded' = Append(loaded, Nets[Len(loaded) + 1])
            /\ modelsLoaded' = (Len(loaded) + 1 = Len(Nets))
            /\ exited' = exited
       ELSE /\ exited' = TRUE
            /\ UNCHANGED <<loaded, modelsLoaded>>
    /\ UNCHANGED <<variant, listening, reqs, resizeIn, resizeOut, loopIn, loopOut>>

LoadModels == \E ok \in BOOLEAN : LoadFromDiskSettles(ok)

ListenAtStart ==
    /\ ~exited
    /\ ~listening
    /\ listening' = TRUE
    /\ UNCHANGED <<variant, loaded, modelsLoaded, exited, reqs,
                   resizeIn, resizeOut, loopIn, loopOut>>

\* loadModels().then(() => app.listen(port, ...))
Listen ==
    /\ ~exited
    /\ modelsLoaded
    /\ ~listening
    /\ listening' = TRUE
    /\ UNCHANGED <<variant, loaded, modelsLoaded, exited, reqs,
                   resizeIn, resizeOut, loopIn, loopOut>>

AcceptingFromStart == ~exited

\* A connection reaches a handler only while the server socket is open.
Accepting == listening /\ ~exited

\* --------------------------------------------------- detection and matching
Max(a, b) == IF a >= b THEN a ELSE b

\* Larger than every distance of the model: let bestDistance = Infinity
Infinity == Max(MaxDesc * DescStep, MaxLoopDesc) + 1

\* faceapi.euclideanDistance of two one-dimensional descriptors
Distance(a, b) == IF a >= b THEN a - b ELSE b - a

SeqsUpTo(S, n) == UNION { [1..k -> S] : k \in 0..n }

Descriptors == { d * DescStep : d \in 0..MaxDesc }

\* What detectAllFaces(img).withFaceLandmarks().withFaceDescriptors() can resolve to
Detections == SeqsUpTo(Descriptors, MaxFaces)

\* faceMatcher.findBestMatch(descriptor).distance: the nearest of detections2
findBestMatch(descriptor, detections2) ==
    CHOOSE d \in { Distance(descriptor, detections2[j]) : j \in 1..Len(detections2) } :
        \A j \in 1..Len(detections2) : d <= Distance(descriptor, detections2[j])

ImprovesOrEqual(distance, bestDistance) == distance <= bestDistance

\* if (match.distance < bestDistance)
Improves(distance, bestDistance) == distance < bestDistance

\* detections1.forEach(...) from detection i on; best is <<bestDistance, bestMatch>>,
\* bestMatch kept as the index of the detection whose match it is (0 is null)
RECURSIVE forEachFrom(_, _, _, _)
forEachFrom(detections1, detections2, i, best) ==
    IF i > Len(detections1)
    THEN best
    ELSE LET distance == findBestMatch(detections1[i], detections2)
         IN forEachFrom(detections1, detections2, i + 1,
                IF Improves(distance, best.bestDistance)
                THEN [bestDistance |-> distance, bestMatch |-> i]
                ELSE best)

BestOf(detections1, detections2) ==
    forEachFrom(detections1, detections2, 1, [bestDistance |-> Infinity, bestMatch |-> 0])

isMatchOrEqual(bestDistance, threshold) == bestDistance <= threshold

\* const isMatch = bestDistance < threshold
isMatch(bestDistance, threshold) == bestDistance < threshold

NoFacesBoth(detections1, detections2) == Len(detections1) = 0 /\ Len(detections2) = 0

\* if (detections1.length === 0 || detections2.length === 0)
NoFaces(detections1, detections2) == Len(detections1) = 0 \/ Len(detections2) = 0

\* ------------------------------------------------------------- responses
NoResponseFields ==
    [match |-> FALSE, distance |-> 0, threshold |-> 0, message |-> "",
     error |-> <<>>, details |-> <<>>, text |-> ""]


Response(status, keys, fields) ==
    [status |-> status, keys |-> keys] @@ fields @@ NoResponseFields

\* res.send('Project is running')
Running == Response(200, {"text"}, [text |-> "Project is running"])

StillLoading ==
    Response(503, {"error"},
             [error |-> <<"Models are still loading. Please try again shortly.">>])

MissingFields ==
    Response(400, {"error"},
             [error |-> IF variant = 1
                        THEN <<"Please provide both image1 and image2 in the request body. These can be URLs, local paths, or Base64 strings.">>
                        ELSE <<"Please provide both image1Path and image2Path in the request body.">>])

NoFaceDetected ==
    Response(400, {"match", "message"},
             [match |-> FALSE, message |-> "Could not detect faces in one or both images."])

MatchResult(bestDistance, threshold, n1, n2) ==
    Response(200, {"match", "distance", "threshold", "message", "details"},
             [match |-> isMatch(bestDistance, threshold),
              distance |-> bestDistance,
              threshold |-> threshold,
              message |-> IF isMatch(bestDistance, threshold)
                          THEN "Faces match!" ELSE "Faces do not match.",
              details |-> <<n1, n2>>])

ErrorPrefix == "Internal server error during face comparison: "

InternalErrorGeneric(message) == Response(500, {"error"}, [error |-> <<ErrorPrefix>>])

\* res.status(500).json({ error: `Internal server error ...: ${error.message}` })
InternalError(message) == Response(500, {"error"}, [error |-> <<ErrorPrefix>> \o message])

\* ------------------------------------------------- POST /compare-faces
\* One exchange: the handler's position (pc, and k, the image it is on), its
\* locals, the responses sent, and a record of what it called, raised and logged.
NoCalls == [loadImage |-> 0, sharp |-> 0, detectAllFaces |-> 0, FaceMatcher |-> 0]

NoFetch == [ok |-> TRUE, statusText |-> ""]

\* An exchange as the client opens the connection.  sentLoading records whether
\* the models were still loading then, sentThreshold the body's threshold field
\* as the client sent it (<<>> when the body has none).
Exchange(route) ==
    [route |-> route, pc |-> "entry", k |-> 1, sentLoading |-> ~modelsLoaded,
     image1 |-> Dead, image2 |-> Dead, threshold |-> 0, sentThreshold |-> <<>>,
     response |-> NoFetch, detections1 |-> <<>>, resp |-> <<>>, raised |-> <<>>,
     calls |-> NoCalls, logged |-> <<>>]

\* The connection is refused: no handler runs and no response exists.
Refused(route) == [Exchange(route) EXCEPT !.pc = "refused"]

\* const { image1, image2, threshold = 0.6 } = req.body
Destructure(q, body) ==
    [q EXCEPT !.image1 = Get(body, Field1), !.image2 = Get(body, Field2),
              !.threshold = ThresholdOf(body),
              !.sentThreshold = IF Has(body, "threshold") THEN <<body["threshold"]>> ELSE <<>>]

\* res.status(...).json(...), the handler returning right after
Respond(q, response) == [q EXCEPT !.pc = "done", !.resp = Append(@, response)]

\* The try block is left: the locals are gone.  (The two early returns before
\* it keep image1 and image2, so that the rejected body can be read back.)
Leave(q) ==
    [q EXCEPT !.image1 = Dead, !.image2 = Dead, !.threshold = 0, !.detections1 = <<>>]

\* catch (error) { ... res.status(500).json(...) }
Catch(q, message) ==
    Leave(Respond([q EXCEPT !.raised = Append(@, message)], InternalError(message)))

ReadErrors == { <<"ENOENT: no such file or directory">> }

\* what a rejected fetch or body read carries
FetchErrors == { <<"request to the URL failed">> }

SharpErrors == { <<"Input buffer contains unsupported image format">> }

DetectErrors == { <<"detection failed">> }

ImageOf(q) == IF q.k = 1 THEN q.image1 ELSE q.image2

Consumed(q) == IF q.k = 1 THEN [q EXCEPT !.image1 = Dead] ELSE [q EXCEPT !.image2 = Dead]

CallSharp(q) == [Consumed(q) EXCEPT !.pc = "sharp", !.calls.sharp = @ + 1]

\* loadImage(imageSource) up to its first await.  readOk: whether readFileSync
\* returns.  The second variant has no data: branch and no try around the read.
loadImage(q0, readOk) ==
    LET q == [q0 EXCEPT !.calls.loadImage = @ + 1]
        s == ImageOf(q)
    IN  IF s = Undefined
        THEN Catch(q, <<"Cannot read properties of undefined (reading 'startsWith')">>)
        ELSE IF variant = 1 /\ startsWith(s, "data:image")
        THEN CallSharp(q)
        ELSE IF startsWith(s, "http://") \/ startsWith(s, "https://")
        THEN [Consumed(q) EXCEPT !.pc = "fetch"]
        ELSE IF readOk
        THEN CallSharp(q)
        ELSE \* readFileSync throws
             LET cause == CHOOSE e \in ReadErrors : TRUE
             IN Catch(q, IF variant = 1
                         THEN <<"Failed to read local image file: ">> \o cause
                         ELSE cause)

FieldsMissingBoth(image1, image2) == Falsy(image1) /\ Falsy(image2)

\* if (!image1 || !image2)
FieldsMissing(image1, image2) == Falsy(image1) \/ Falsy(image2)

\* The handler from its entry to its first await.
compareFaces(body, readOk) ==
    LET q0 == Exchange("POST /compare-faces")
        q == Destructure(q0, body)
    IN  IF ~modelsLoaded
        THEN Respond(q0, StillLoading)
        ELSE IF FieldsMissing(q.image1, q.image2)
        THEN Respond(q, MissingFields)
        ELSE loadImage(q, readOk)

\* app.get('/', (req, res) => res.send('Project is running'))
root == Respond(Exchange("GET /"), Running)

Replace(q, q2) == (reqs (-) SetToBag({q})) (+) SetToBag({q2})

Sent(route) == { q \in BagToSet(reqs) : q.route = route }

\* How many requests of a route the clients have sent
Count(route) == BagCardinality([q \in Sent(route) |-> reqs[q]])

InFlight == { q \in BagToSet(reqs) : q.pc \notin {"done", "refused"} }

ServerVars == <<variant, loaded, modelsLoaded, listening, exited>>
OtherVars == <<resizeIn, resizeOut, loopIn, loopOut>>

\* A client sends GET / to the running process.
GetRoot ==
    /\ ~exited
    /\ Count("GET /") < MaxGets
    /\ reqs' = reqs (+) SetToBag({ IF Accepting THEN root ELSE Refused("GET /") })
    /\ UNCHANGED <<ServerVars, OtherVars>>


\* A client sends POST /compare-faces to the running process.
Post ==
    /\ ~exited
    /\ Count("POST /compare-faces") < MaxPosts
    /\ \E body \in Bodies, readOk \in BOOLEAN :
          reqs' = reqs (+) SetToBag({ IF Accepting THEN compareFaces(body, readOk)
                                                   ELSE Refused("POST /compare-faces") })
    /\ UNCHANGED <<ServerVars, OtherVars>>

\* await fetch(imageSource) settles: rejected, or resolved with response.ok and
\* response.statusText.  Only the first variant tests response.ok.
FetchResolves(q, ok, statusText) ==
    LET q2 == [q EXCEPT !.response = [ok |-> ok, statusText |-> statusText]]
    IN  IF variant = 1 /\ ~ok
        THEN Catch(q2, <<"Failed to fetch image from URL: ", statusText>>)
        ELSE [q2 EXCEPT !.pc = "arrayBuffer"]

FetchSettles ==
    /\ ~exited
    /\ \E q \in InFlight :
          /\ q.pc = "fetch"
          /\ \/ \E e \in FetchErrors : reqs' = Replace(q, Catch(q, e))
             \/ reqs' = Replace(q, FetchResolves(q, TRUE, "OK"))
             \/ \E st \in StatusTexts : reqs' = Replace(q, FetchResolves(q, FALSE, st))
    /\ UNCHANGED <<ServerVars, OtherVars>>

\* await response.arrayBuffer() settles; on success Buffer.from and sharp(buffer) follow.
ArrayBufferSettles ==
    /\ ~exited
    /\ \E q \in InFlight :
          /\ q.pc = "arrayBuffer"
          /\ \/ \E e \in FetchErrors :
                   reqs' = Replace(q, Catch([q EXCEPT !.response = NoFetch], e))
             \/ reqs' = Replace(q, CallSharp([q EXCEPT !.response = NoFetch]))
    /\ UNCHANGED <<ServerVars, OtherVars>>

\* await sharp(buffer).resize(512).toBuffer() settles; on success loadImage
\* returns and the handler goes on to the next image or to the detection.
SharpResolves(q, readOk) ==
    IF q.k = 1
    THEN loadImage([q EXCEPT !.k = 2], readOk)
    ELSE [q EXCEPT !.pc = "detect", !.k = 1, !.calls.detectAllFaces = @ + 1]

SharpSettles ==
    /\ ~exited
    /\ \E q \in InFlight :
          /\ q.pc = "sharp"
          /\ \/ \E e \in SharpErrors : reqs' = Replace(q, Catch(q, e))
             \/ \E readOk \in BOOLEAN : reqs' = Replace(q, SharpResolves(q, readOk))
    /\ UNCHANGED <<ServerVars, OtherVars>>

\* The handler from the second detection's result to its response.
Compare(q, detections2) ==
    LET detections1 == q.detections1
        q2 == [q EXCEPT !.logged = <<Len(detections1), Len(detections2)>>]
    IN  IF NoFaces(detections1, detections2)
        THEN Leave(Respond(q2, NoFaceDetected))
        ELSE IF Len(detections2) = 0
        THEN \* new faceapi.FaceMatcher([]) throws
             Catch([q2 EXCEPT !.calls.FaceMatcher = @ + 1],
                   <<"FaceMatcher.constructor - expected atleast one input">>)
        ELSE LET best == BestOf(detections1, detections2)
             IN Leave(Respond([q2 EXCEPT !.calls.FaceMatcher = @ + 1],
                              MatchResult(best.bestDistance, q.threshold,
                                          Len(detections1), Len(detections2))))

DetectResolves(q, detections) ==
    IF q.k = 1
    THEN [q EXCEPT !.detections1 = detections, !.k = 2, !.calls.detectAllFaces = @ + 1]
    ELSE Compare(q, detections)

\* await faceapi.detectAllFaces(img)... settles.
DetectSettles ==
    /\ ~exited
    /\ \E q \in InFlight :
          /\ q.pc = "detect"
          /\ \/ \E e \in DetectErrors : reqs' = Replace(q, Catch(q, e))
             \/ \E detections \in Detections : reqs' = Replace(q, DetectResolves(q, detections))
    /\ UNCHANGED <<ServerVars, OtherVars>>

\* ------------------------------------------------------------ the resize
\* a / b rounded to the nearest integer
RoundDiv(a, b) == (2 * a + b) \div (2 * b)

sharpResizeInside(width, height) ==
    IF width >= height
    THEN <<ResizeWidth, RoundDiv(height * ResizeWidth, width)>>
    ELSE <<RoundDiv(width * ResizeWidth, height), ResizeWidth>>

\* sharp(buffer).resize(512): the width is set, the height follows the aspect
\* ratio (sharp's default when only a width is given; small images are enlarged)
sharpResize(width, height) == <<ResizeWidth, RoundDiv(height * ResizeWidth, width)>>

Dims == { k * 100 : k \in 1..MaxDimK }

\* loadImage's tail: const image = await sharp(buffer).resize(512).toBuffer();
\* img.src = image; return img
ResizeImage ==
    /\ resizeOut = <<>>
    /\ resizeOut' = sharpResize(resizeIn[1], resizeIn[2])
    /\ UNCHANGED <<ServerVars, reqs, resizeIn, loopIn, loopOut>>

\* ------------------------------------------------- the best-distance loop
LoopDetections == SeqsUpTo(0..MaxLoopDesc, MaxLoopFaces) \ {<<>>}

\* lines 165-176 on two non-empty collections
RunLoop ==
    /\ loopOut = <<>>
    /\ loopOut' = <<BestOf(loopIn[1], loopIn[2])>>
    /\ UNCHANGED <<ServerVars, reqs, resizeIn, resizeOut, loopIn>>

\* --------------------------------------------------------- specifications
ServerInit ==
    /\ variant \in {1, 2}
    /\ loaded = <<>>
    /\ modelsLoaded = FALSE
    /\ listening = FALSE
    /\ exited = FALSE
    /\ reqs = EmptyBag

Init ==
    /\ ServerInit
    /\ resizeIn = <<>> /\ resizeOut = <<>>
    /\ loopIn = <<>> /\ loopOut = <<>>

Next ==
    \/ LoadModels
    \/ Listen
    \/ GetRoot
    \/ Post
    \/ FetchSettles
    \/ ArrayBufferSettles
    \/ SharpSettles
    \/ DetectSettles

Spec == Init /\ [][Next]_vars

\* loadImage's resize on every decoded image, in either variant
InitResize ==
    /\ ServerInit
    /\ resizeIn \in Dims \X Dims /\ resizeOut = <<>>
    /\ loopIn = <<>> /\ loopOut = <<>>

SpecResize == InitResize /\ [][ResizeImage]_vars

\* the loop on every pair of non-empty collections
InitLoop ==
    /\ ServerInit
    /\ resizeIn = <<>> /\ resizeOut = <<>>
    /\ loopIn \in LoopDetections \X LoopDetections /\ loopOut = <<>>

SpecLoop == InitLoop /\ [][RunLoop]_vars

\* ------------------------------------------------------------------ claims
Posts == Sent("POST /compare-faces")

Gets == Sent("GET /")

FullResult == {"match", "distance", "threshold", "message", "details"}

\* The threshold the client asked for: the value sent, or 0.6 when none was sent
AskedThreshold(q) == IF q.sentThreshold = <<>> THEN DefaultThreshold ELSE q.sentThreshold[1]

\* Both images resolved and each gave at least one detection.
BothHaveFaces(q) == q.logged # <<>> /\ q.logged[1] >= 1 /\ q.logged[2] >= 1

\* C1: a request whose two images resolve and each yield a detection is answered
\* 200 once, with a distance >= 0 and match true exactly when distance < threshold,
\* the threshold being the value sent or 0.6 when the body has none; a threshold
\* of 0 that was sent is used as 0 and gives match = false.
C1_MatchIffBelowThreshold ==
    \A q \in Posts :
        BothHaveFaces(q) =>
            /\ q.pc = "done"
            /\ Len(q.resp) = 1
            /\ q.resp[1].status = 200
            /\ q.resp[1].keys = FullResult
            /\ q.resp[1].distance >= 0
            /\ q.resp[1].threshold = AskedThreshold(q)
            /\ q.resp[1].match = (q.resp[1].distance < AskedThreshold(q))
            /\ (q.sentThreshold = <<0>> => q.resp[1].match = FALSE)

C1_Witness ==
    \E q \in Posts :
        /\ BothHaveFaces(q)
        /\ q.sentThreshold = <<0>>
        /\ q.resp[1].status = 200
        /\ q.resp[1].distance = 0
        /\ q.resp[1].match = FALSE

\* C2 as stated: a POST /compare-faces sent while the models are loading is
\* answered 503 with the fixed message, and loadImage and detectAllFaces are not
\* called for it.
C2_LoadingYields503 ==
    \A q \in Posts :
        q.sentLoading =>
            /\ q.resp = <<StillLoading>>
            /\ q.calls = NoCalls

\* C2 as amended: a POST /compare-faces sent while the models are loading is
\* refused at the connection, since the server listens only after the load: it
\* gets no response at all, no handler runs for it and nothing is called; and no
\* exchange is ever answered 503.
C2_LoadingIsRefused ==
    \A q \in Posts :
        /\ q.sentLoading =>
              /\ q.pc = "refused"
              /\ q.resp = <<>>
              /\ q.calls = NoCalls
        /\ \A i \in 1..Len(q.resp) : q.resp[i].status # 503

C2_Witness ==
    \E q \in Posts : q.sentLoading /\ q.pc = "refused" /\ ~modelsLoaded /\ ~exited

C4_MissingFieldYields400 ==
    \A q \in Posts :
        (q.pc # "refused" /\ (Falsy(q.image1) \/ Falsy(q.image2))) =>
            /\ q.pc = "done"
            /\ q.resp = <<MissingFields>>
            /\ q.resp[1].status = 400
            /\ q.calls = NoCalls

C4_Witness ==
    \E q \in Posts :
        /\ startsWith(q.image1, "http://")
        /\ q.image2 = EmptyString
        /\ q.sentThreshold = <<0>>
        /\ q.resp[1].status = 400

\* C5: when the detection returns no face for image 1 or for image 2, the request
\* is answered 400 with match = false, even if the other image has faces; the
\* FaceMatcher is not used and no distance is reported.
C5_NoFaceYields400 ==
    \A q \in Posts :
        (q.logged # <<>> /\ (q.logged[1] = 0 \/ q.logged[2] = 0)) =>
            /\ q.pc = "done"
            /\ q.resp = <<NoFaceDetected>>
            /\ q.resp[1].status = 400
            /\ q.resp[1].match = FALSE
            /\ "distance" \notin q.resp[1].keys
            /\ q.calls.FaceMatcher = 0

C5_Witness ==
    \E q \in Posts :
        /\ q.logged # <<>> /\ q.logged[1] >= 1 /\ q.logged[2] = 0
        /\ q.resp[1].status = 400

\* C6: a request past the readiness and field checks ends with exactly one
\* response, the full match result or a structured error, never both: an error
\* raised while resolving, detecting or matching gives one 500 whose text holds
\* the error's message, nothing is called again after it, and no 200 follows it.
C6_OneResponse ==
    \A q \in Posts :
        /\ Len(q.resp) <= 1
        /\ Len(q.raised) <= 1
        /\ (q.pc = "done") = (Len(q.resp) = 1)
        /\ q.raised # <<>> =>
              /\ q.pc = "done"
              /\ q.resp[1].status = 500
              /\ q.resp[1].keys = {"error"}
              /\ q.resp[1].error = <<ErrorPrefix>> \o q.raised[1]
        /\ (q.pc = "done" /\ q.resp[1].status = 200) =>
              (q.raised = <<>> /\ q.resp[1].keys = FullResult)
        /\ (q.pc = "done" /\ q.resp[1].status # 200) =>
              q.resp[1].keys \cap FullResult \subseteq {"match", "message"}
        /\ q.calls.loadImage <= 2 /\ q.calls.sharp <= 2
        /\ q.calls.detectAllFaces <= 2 /\ q.calls.FaceMatcher <= 1

C6_Witness ==
    \E q \in Posts :
        /\ q.raised # <<>> /\ q.raised[1] \in SharpErrors
        /\ q.calls.sharp = 2
        /\ q.resp[1].status = 500

ModelsLoadedInv ==
    /\ modelsLoaded => loaded = Nets
    /\ exited => (~modelsLoaded /\ ~listening /\ Len(loaded) < Len(Nets))
    /\ listening => modelsLoaded

ModelsLoadedStep ==
    /\ modelsLoaded => modelsLoaded'
    /\ exited => (exited' /\ ~listening' /\ ~modelsLoaded')

\* C7: modelsLoaded = true implies the three nets were loaded, in order; a failed
\* load ends the process with modelsLoaded false and the server never listening;
\* and once modelsLoaded is true no step, of any handler in any interleaving,
\* makes it false again.
C7_ReadinessAllOrNothing == []ModelsLoadedInv /\ [][ModelsLoadedStep]_vars

C7_Witness ==
    /\ modelsLoaded /\ loaded = Nets /\ listening
    /\ \E p \in Posts : p.pc = "detect" /\ p.k = 2
    /\ \E q \in Gets : q.pc = "done"

\* Distance of detection i of image 1 and detection j of image 2
PairDistance(i, j) == Distance(loopIn[1][i], loopIn[2][j])

\* Detection i of image 1 is at the least distance of all pairs.
AttainsMinimum(i) ==
    \E j \in 1..Len(loopIn[2]) :
        \A i2 \in 1..Len(loopIn[1]), j2 \in 1..Len(loopIn[2]) :
            PairDistance(i, j) <= PairDistance(i2, j2)

\* C8: on two non-empty collections the distance reported is the least distance
\* over all pairs of a detection of image 1 and one of image 2, and the match kept
\* is that of the first detection of image 1 to attain it.
C8_GlobalMinimumFirstWins ==
    loopOut # <<>> =>
        LET best == loopOut[1]
        IN  /\ best.bestMatch \in 1..Len(loopIn[1])
            /\ AttainsMinimum(best.bestMatch)
            /\ \E j \in 1..Len(loopIn[2]) : best.bestDistance = PairDistance(best.bestMatch, j)
            /\ \A i \in 1..Len(loopIn[1]), j \in 1..Len(loopIn[2]) :
                  best.bestDistance <= PairDistance(i, j)
            /\ \A i \in 1..(best.bestMatch - 1) : ~AttainsMinimum(i)

C8_Witness ==
    /\ loopOut # <<>>
    /\ Len(loopIn[1]) = 2 /\ Len(loopIn[2]) = 2
    /\ AttainsMinimum(1) /\ AttainsMinimum(2)
    /\ loopOut[1].bestMatch = 1
    /\ loopOut[1].bestDistance = 1

\* C9 as stated: for an image of any width and height, neither the width nor the
\* height of the image loadImage returns exceeds 512.
C9_BothSidesWithinBound ==
    resizeOut # <<>> => (resizeOut[1] <= ResizeWidth /\ resizeOut[2] <= ResizeWidth)

\* C9 as amended: the image loadImage returns is exactly 512 wide, whatever the
\* input (a smaller image is enlarged), and its height is the input's height
\* scaled by 512 / width to the nearest pixel; so the height is within 512 when
\* the input is no taller than wide, and is at least 1024 when the input is at
\* least twice as tall as wide.
C9_WidthSetHeightFollows ==
    resizeOut # <<>> =>
        LET w == resizeIn[1]
            h == resizeIn[2]
            scaled == resizeOut[2] * w
        IN  /\ resizeOut[1] = ResizeWidth
            /\ 2 * scaled <= 2 * h * ResizeWidth + w
            /\ 2 * scaled > 2 * h * ResizeWidth - w
            /\ h <= w => resizeOut[2] <= ResizeWidth
            /\ h >= 2 * w => resizeOut[2] >= 2 * ResizeWidth

C9_Witness == resizeIn = <<100, 200>> /\ resizeOut = <<ResizeWidth, 2 * ResizeWidth>>

\* C10: in both variants a fetch that resolves with a non-success status makes
\* loadImage fail with an error carrying the status text before the body is read,
\* decoded or resized: the request ends in a 500 holding that text and nothing is
\* detected.
C10_FetchFailureStopsLoad ==
    \A q \in Posts :
        ~q.response.ok =>
            /\ q.pc = "done"
            /\ q.raised = << <<"Failed to fetch image from URL: ", q.response.statusText>> >>
            /\ q.resp[1].status = 500
            /\ q.resp[1].error =
                  <<ErrorPrefix, "Failed to fetch image from URL: ", q.response.statusText>>
            /\ q.calls.sharp = q.k - 1
            /\ q.calls.detectAllFaces = 0

====
